---- MODULE Spec2Model ----
(***************************************************************************)
(* Model of graphics/src/widget/canvas/path/builder.rs: the canvas Path    *)
(* Builder, a facade over the path builder of the geometry engine          *)
(* (lyon::path::Builder wrapped by with_svg()).                            *)
(*                                                                         *)
(* Numbers.  The source computes in f32.  The model computes exactly in    *)
(* the ring Z[w], w = sqrt(2)/2: a number is a pair <<a, b>> standing for  *)
(* a + b*w.  Angles are counted in eighths of a turn (pi/4), which is the  *)
(* step the engine uses to cut an arc into quadratic Beziers, so every     *)
(* point the engine computes for the arcs of the model is a number of the  *)
(* ring and point equality is exact.                                       *)
(***************************************************************************)
EXTENDS Integers, Sequences, FiniteSets, TLC

(* ------------------------------ bounds -------------------------------- *)

\* Longest sequence of builder calls explored by Spec (build not counted).
MaxOps == 2

\* Longest sequence of builder calls explored by SpecLines (build not counted).
MaxLines == 4

(* ------------------------------ numbers ------------------------------- *)

\* 2.0 * std::f32::consts::PI, in eighths of a turn.
TwoPi == 8

Num(n) == <<n, 0>>

NAdd(a, b) == <<a[1] + b[1], a[2] + b[2]>>

NScale(k, a) == <<k * a[1], k * a[2]>>

\* a * tan(pi/8), tan(pi/8) = sqrt(2) - 1 = 2w - 1 and w*w = 1/2.
NTan(a) == <<a[2] - a[1], 2 * a[1] - a[2]>>

\* cos and sin of k eighths of a turn.
Cos8(k) ==
    CASE k % 8 = 0 -> <<1, 0>>
      [] k % 8 = 1 -> <<0, 1>>
      [] k % 8 = 2 -> <<0, 0>>
      [] k % 8 = 3 -> <<0, -1>>
      [] k % 8 = 4 -> <<-1, 0>>
      [] k % 8 = 5 -> <<0, -1>>
      [] k % 8 = 6 -> <<0, 0>>
      [] k % 8 = 7 -> <<0, 1>>

Sin8(k) == Cos8(k - 2)

\* Point::new(x, y) / lyon::math::Point::new(point.x, point.y): the
\* coordinates are carried over unchanged.
Pt(x, y) == [x |-> Num(x), y |-> Num(y)]

PAdd(p, v) == [x |-> NAdd(p.x, v.x), y |-> NAdd(p.y, v.y)]

PScale(k, v) == [x |-> NScale(k, v.x), y |-> NScale(k, v.y)]

PTan(v) == [x |-> NTan(v.x), y |-> NTan(v.y)]

\* Rotation2D by q quarter turns.
Rotate(q, v) ==
    CASE q % 4 = 0 -> v
      [] q % 4 = 1 -> [x |-> NScale(-1, v.y), y |-> v.x]
      [] q % 4 = 2 -> [x |-> NScale(-1, v.x), y |-> NScale(-1, v.y)]
      [] q % 4 = 3 -> [x |-> v.y, y |-> NScale(-1, v.x)]

Abs(n) == IF n < 0 THEN -n ELSE n

Min(a, b) == IF a < b THEN a ELSE b

Sign(n) == IF n < 0 THEN -1 ELSE IF n > 0 THEN 1 ELSE 0

(* --------------------- the engine's path builder ---------------------- *)
(* lyon::path::Builder behind SvgPathBuilder.  `verbs` is the engine's     *)
(* verb list; each element carries the points the engine stores for it in  *)
(* its parallel point list.                                                *)

Origin == Pt(0, 0)

\* lyon::path::Path::builder().with_svg()
raw_new ==
    [verbs |-> <<>>,
     current_position |-> Origin,
     first_position |-> Origin,
     need_moveto |-> TRUE,
     last_cmd |-> "End"]

\* A sub-path left open (last verb a segment or Begin) is ended before the
\* next one begins and before the path is built.
end_if_needed(b) ==
    IF b.last_cmd \in {"LineTo", "QuadraticTo", "CubicTo", "ArcTo", "Begin"}
    THEN [b EXCEPT !.verbs = Append(@, [v |-> "End"])]
    ELSE b

raw_move_to(b, to) ==
    LET e == end_if_needed(b)
    IN  [e EXCEPT !.verbs = Append(@, [v |-> "Begin", to |-> to]),
                  !.need_moveto = FALSE,
                  !.first_position = to,
                  !.current_position = to,
                  !.last_cmd = "Begin"]

\* A segment issued with no sub-path open begins one at the start of the
\* previous sub-path (the origin on a fresh builder).
move_to_if_needed(b) ==
    IF b.need_moveto THEN raw_move_to(b, b.first_position) ELSE b

raw_line_to(b, to) ==
    LET m == move_to_if_needed(b)
    IN  [m EXCEPT !.verbs = Append(@, [v |-> "LineTo", to |-> to]),
                  !.current_position = to,
                  !.last_cmd = "LineTo"]

raw_quadratic_bezier_to(b, ctrl, to) ==
    LET m == move_to_if_needed(b)
    IN  [m EXCEPT !.verbs = Append(@, [v |-> "QuadraticTo", ctrl |-> ctrl,
                                       to |-> to]),
                  !.current_position = to,
                  !.last_cmd = "QuadraticTo"]

raw_cubic_bezier_to(b, ctrl1, ctrl2, to) ==
    LET m == move_to_if_needed(b)
    IN  [m EXCEPT !.verbs = Append(@, [v |-> "CubicTo", ctrl1 |-> ctrl1,
                                       ctrl2 |-> ctrl2, to |-> to]),
                  !.current_position = to,
                  !.last_cmd = "CubicTo"]

\* The engine snaps the last point onto the start of the sub-path when it
\* is closer than 0.0001 to it; in exact arithmetic that is the identity.
raw_close(b) ==
    [b EXCEPT !.verbs = Append(@, [v |-> "Close"]),
              !.current_position = b.first_position,
              !.need_moveto = TRUE,
              !.last_cmd = "Close"]

raw_current_position(b) == b.current_position

\* SvgBuilder::arc_to: an SVG arc from the current position to `to`.  A
\* zero radius or a zero chord is a straight line.  Otherwise the engine
\* flattens the arc into a run of quadratic Beziers ending at `to`; the
\* run is kept as one ArcTo element with the arguments that determine it.
raw_arc_to(b, radii, x_rotation, flags, to) ==
    IF radii.x = 0 \/ radii.y = 0 \/ b.current_position = to
    THEN raw_line_to(b, to)
    ELSE LET m == move_to_if_needed(b)
         IN  [m EXCEPT !.verbs = Append(@, [v |-> "ArcTo", radii |-> radii,
                                            x_rotation |-> x_rotation,
                                            flags |-> flags, to |-> to]),
                       !.current_position = to,
                       !.last_cmd = "ArcTo"]

raw_build(b) == end_if_needed(b).verbs

(* ------------------------ the engine's geom::Arc ----------------------- *)

\* sample_ellipse: the point of the ellipse at `angle`, relative to its
\* center.
sample_ellipse(radii, x_rotation, angle) ==
    Rotate(x_rotation \div 2,
           [x |-> NScale(radii.x, Cos8(angle)),
            y |-> NScale(radii.y, Sin8(angle))])

\* geom::Arc::sample(t) for t = 0 and t = 1.
arc_sample(a, t) ==
    PAdd(a.center,
         sample_ellipse(a.radii, a.x_rotation,
                        a.start_angle + t * a.sweep_angle))

tangent_at_angle(a, angle) ==
    Rotate(a.x_rotation \div 2,
           [x |-> NScale(-a.radii.x, Sin8(angle)),
            y |-> NScale(a.radii.y, Cos8(angle))])

\* The i-th (from 0) quadratic Bezier of for_each_quadratic_bezier: the
\* sweep is cut to one full turn and divided into steps of pi/4; the
\* control point is where the tangents at both ends meet (the start point
\* when they do not meet).
arc_quadratic(a, i) ==
    LET sign == Sign(a.sweep_angle)
        a1 == a.start_angle + sign * i
        a2 == a.start_angle + sign * (i + 1)
        from == PAdd(a.center, sample_ellipse(a.radii, a.x_rotation, a1))
        to == PAdd(a.center, sample_ellipse(a.radii, a.x_rotation, a2))
        ctrl == IF a.radii.x = 0 \/ a.radii.y = 0
                THEN from
                ELSE PAdd(from, PScale(sign, PTan(tangent_at_angle(a, a1))))
    IN  [from |-> from, ctrl |-> ctrl, to |-> to]

arc_n_steps(a) == Min(Abs(a.sweep_angle), TwoPi)

(* ------------------------------ Builder ------------------------------- *)

\* Builder::new
new == [raw |-> raw_new]

move_to(self, point) == [self EXCEPT !.raw = raw_move_to(@, point)]

\* Mutant of line_to: the coordinates are exchanged on the way to the engine.
line_to_swapped(self, point) ==
    [self EXCEPT !.raw = raw_line_to(@, [x |-> point.y, y |-> point.x])]

line_to(self, point) == [self EXCEPT !.raw = raw_line_to(@, point)]

close(self) == [self EXCEPT !.raw = raw_close(@)]

\* impl From<Arc> for arc::Elliptical: equal radii, no rotation, the two
\* angles carried over.
into_elliptical(a) ==
    [center |-> a.center,
     radii |-> [x |-> a.radius, y |-> a.radius],
     rotation |-> 0,
     start_angle |-> a.start_angle,
     end_angle |-> a.end_angle]

\* The geom::Arc that ellipse builds from an arc::Elliptical.
geom_arc(e) ==
    [center |-> e.center,
     radii |-> e.radii,
     x_rotation |-> e.rotation,
     start_angle |-> e.start_angle,
     sweep_angle |-> e.end_angle]

\* The closure of ellipse applied to the quadratics i .. n-1 of the arc.
RECURSIVE for_each_quadratic_bezier(_, _, _, _)
for_each_quadratic_bezier(b, a, i, n) ==
    IF i >= n
    THEN b
    ELSE LET curve == arc_quadratic(a, i)
         IN  for_each_quadratic_bezier(
                 raw_quadratic_bezier_to(b, curve.ctrl, curve.to),
                 a, i + 1, n)

\* Mutant of ellipse: no move_to when the cursor is already at the start of
\* the arc.
ellipse_connected(self, e) ==
    LET a == geom_arc(e)
        moved == IF raw_current_position(self.raw) = arc_sample(a, 0)
                 THEN self.raw
                 ELSE raw_move_to(self.raw, arc_sample(a, 0))
    IN  [self EXCEPT !.raw =
             for_each_quadratic_bezier(moved, a, 0, arc_n_steps(a))]

ellipse(self, e) ==
    LET a == geom_arc(e)
        moved == raw_move_to(self.raw, arc_sample(a, 0))
    IN  [self EXCEPT !.raw =
             for_each_quadratic_bezier(moved, a, 0, arc_n_steps(a))]

arc(self, a) == ellipse(self, into_elliptical(a))

\* path::ArcFlags::default()
ArcFlagsDefault == [large_arc |-> FALSE, sweep |-> FALSE]

\* Mutant of arc_to: the line to `a` is drawn without looking at the cursor.
arc_to_always_line(self, a, b, radius) ==
    [self EXCEPT !.raw =
         raw_arc_to(raw_line_to(self.raw, a), [x |-> radius, y |-> radius],
                    0, ArcFlagsDefault, b)]

arc_to(self, a, b, radius) ==
    LET lined == IF raw_current_position(self.raw) # a
                 THEN raw_line_to(self.raw, a)
                 ELSE self.raw
    IN  [self EXCEPT !.raw =
             raw_arc_to(lined, [x |-> radius, y |-> radius], 0,
                        ArcFlagsDefault, b)]

bezier_curve_to(self, control_a, control_b, to) ==
    [self EXCEPT !.raw = raw_cubic_bezier_to(@, control_a, control_b, to)]

\* Mutant of quadratic_curve_to: control point and end point exchanged.
quadratic_curve_to_exchanged(self, control, to) ==
    [self EXCEPT !.raw = raw_quadratic_bezier_to(@, to, control)]

quadratic_curve_to(self, control, to) ==
    [self EXCEPT !.raw = raw_quadratic_bezier_to(@, control, to)]

\* Mutant of rectangle: the last two corners are visited in the other order.
rectangle_crossed(self, top_left, size) ==
    LET s1 == move_to(self, top_left)
        s2 == line_to(s1, PAdd(top_left, Pt(size.width, 0)))
        s3 == line_to(s2, PAdd(top_left, Pt(0, size.height)))
        s4 == line_to(s3, PAdd(top_left, Pt(size.width, size.height)))
    IN  close(s4)

\* top_left and size have integer coordinates.
rectangle(self, top_left, size) ==
    LET s1 == move_to(self, top_left)
        s2 == line_to(s1, PAdd(top_left, Pt(size.width, 0)))
        s3 == line_to(s2, PAdd(top_left, Pt(size.width, size.height)))
        s4 == line_to(s3, PAdd(top_left, Pt(0, size.height)))
    IN  close(s4)

\* Mutant of circle: the arc spans half a turn.
circle_half(self, center, radius) ==
    arc(self, [center |-> center, radius |-> radius,
               start_angle |-> 0, end_angle |-> TwoPi \div 2])

\* Mutant of circle: the sub-path is closed after the arc.
circle_closed(self, center, radius) ==
    close(arc(self, [center |-> center, radius |-> radius,
                     start_angle |-> 0, end_angle |-> TwoPi]))

circle(self, center, radius) ==
    arc(self, [center |-> center, radius |-> radius,
               start_angle |-> 0, end_angle |-> TwoPi])

build(self) == raw_build(self.raw)

(* ------------------------------- inputs ------------------------------- *)

Coords == {0, 1}

Points == {Pt(x, y) : x \in Coords, y \in Coords}

Controls == {Pt(2, 0), Pt(0, 2)}

Centers == {Pt(0, 0), Pt(1, 1)}

Sizes == {[width |-> 1, height |-> 2], [width |-> -1, height |-> -2],
          [width |-> 2, height |-> 0]}

Radiuses == {0, 1}

\* Angles in eighths of a turn.
StartAngles == {0, 2}

EndAngles == {3, 4, TwoPi}

Arcs == [center : {Pt(1, 1)}, radius : {1}, start_angle : StartAngles,
         end_angle : EndAngles]

\* Radii and rotation (in eighths of a turn) of the elliptical arcs.
Shapes == {[radii |-> [x |-> 1, y |-> 2], rotation |-> 0],
           [radii |-> [x |-> 1, y |-> 0], rotation |-> 2]}

Ellipticals ==
    {[center |-> Pt(0, 0), radii |-> s.radii, rotation |-> s.rotation,
      start_angle |-> sa, end_angle |-> ea] :
        s \in Shapes, sa \in {0, 1}, ea \in {-2, 0, 3, 10}}

(* ------------------------------- state -------------------------------- *)

VARIABLES
    builder,  \* the Builder (its field raw)
    built,    \* build() has consumed the builder
    path,     \* the Path build() returned (<<>> before)
    calls,    \* the calls made so far, in order
    pre       \* the Builder before the last call

vars == <<builder, built, path, calls, pre>>

Init ==
    /\ builder = new
    /\ built = FALSE
    /\ path = <<>>
    /\ calls = <<>>
    /\ pre = new

\* A method taking &mut self: possible while the builder is not consumed.
Mutate(max, call, next) ==
    /\ ~built
    /\ Len(calls) < max
    /\ builder' = next
    /\ pre' = builder
    /\ calls' = Append(calls, call)
    /\ UNCHANGED <<built, path>>

Call_move_to(max) ==
    \E p \in Points :
        Mutate(max, [op |-> "move_to", point |-> p], move_to(builder, p))

Call_line_to(max) ==
    \E p \in Points :
        Mutate(max, [op |-> "line_to", point |-> p], line_to(builder, p))

Call_arc(max) ==
    \E a \in Arcs :
        Mutate(max, [op |-> "arc", arc |-> a], arc(builder, a))

Call_arc_to(max) ==
    \E a \in Points, b \in Centers, r \in Radiuses :
        Mutate(max, [op |-> "arc_to", a |-> a, b |-> b, radius |-> r],
               arc_to(builder, a, b, r))

Call_ellipse(max) ==
    \E e \in Ellipticals :
        Mutate(max, [op |-> "ellipse", arc |-> e], ellipse(builder, e))

Call_bezier_curve_to(max) ==
    \E ca \in Controls, to \in Centers :
        Mutate(max, [op |-> "bezier_curve_to", control_a |-> ca,
                     control_b |-> Pt(2, 2), to |-> to],
               bezier_curve_to(builder, ca, Pt(2, 2), to))

Call_quadratic_curve_to(max) ==
    \E c \in Controls, to \in Centers :
        Mutate(max, [op |-> "quadratic_curve_to", control |-> c, to |-> to],
               quadratic_curve_to(builder, c, to))

Call_rectangle(max) ==
    \E tl \in Points, s \in Sizes :
        Mutate(max, [op |-> "rectangle", top_left |-> tl, size |-> s],
               rectangle(builder, tl, s))

Call_circle(max) ==
    \E c \in Centers, r \in Radiuses :
        Mutate(max, [op |-> "circle", center |-> c, radius |-> r],
               circle(builder, c, r))

Call_close(max) ==
    Mutate(max, [op |-> "close"], close(builder))

\* Mutant of Call_build: build(&self), which leaves the builder usable.
Call_build_by_reference ==
    /\ Len(calls) < MaxOps + 1
    /\ path' = build(builder)
    /\ pre' = builder
    /\ calls' = Append(calls, [op |-> "build"])
    /\ UNCHANGED <<builder, built>>

\* build(self): takes the builder by value, so it is possible once.
Call_build ==
    /\ ~built
    /\ built' = TRUE
    /\ path' = build(builder)
    /\ pre' = builder
    /\ calls' = Append(calls, [op |-> "build"])
    /\ UNCHANGED builder

Next ==
    \/ Call_move_to(MaxOps)
    \/ Call_line_to(MaxOps)
    \/ Call_arc(MaxOps)
    \/ Call_arc_to(MaxOps)
    \/ Call_ellipse(MaxOps)
    \/ Call_bezier_curve_to(MaxOps)
    \/ Call_quadratic_curve_to(MaxOps)
    \/ Call_rectangle(MaxOps)
    \/ Call_circle(MaxOps)
    \/ Call_close(MaxOps)
    \/ Call_build

Spec == Init /\ [][Next]_vars

NextLines ==
    \/ Call_move_to(MaxLines)
    \/ Call_line_to(MaxLines)
    \/ Call_close(MaxLines)
    \/ Call_build

SpecLines == Init /\ [][NextLines]_vars

(* ------------------------------- claims ------------------------------- *)

LastCall == calls[Len(calls)]

\* The elements the last call appended to the engine's verb list.
Added ==
    SubSeq(builder.raw.verbs, Len(pre.raw.verbs) + 1,
           Len(builder.raw.verbs))

IsSegment(e) == e.v \notin {"Begin", "End", "Close"}

\* The segments among the elements of a verb list.
Segs(vs) == SelectSeq(vs, IsSegment)

Begin(p) == [v |-> "Begin", to |-> p]

Line(p) == [v |-> "LineTo", to |-> p]

RectPath(tl, s) ==
    <<Begin(tl),
      Line(Pt(tl.x[1] + s.width, tl.y[1])),
      Line(Pt(tl.x[1] + s.width, tl.y[1] + s.height)),
      Line(Pt(tl.x[1], tl.y[1] + s.height)),
      [v |-> "Close"]>>

RectangleBuilt ==
    /\ Len(calls) >= 2
    /\ calls[Len(calls)].op = "build"
    /\ calls[Len(calls) - 1].op = "rectangle"

\* C1: rectangle(top_left, size) followed by build() ends the Path with a
\* sub-path of its own that begins at top_left, runs straight to
\* top_left + (width, 0), top_left + (width, height), top_left + (0, height)
\* in this order and is closed, for every size (negative ones included) and
\* whatever was issued before.
C1_RectangleClosedFourSided ==
    RectangleBuilt =>
        LET c == calls[Len(calls) - 1]
            n == Len(path)
        IN  /\ n >= 5
            /\ SubSeq(path, n - 4, n) = RectPath(c.top_left, c.size)
            /\ (n > 5 => path[n - 5].v \in {"End", "Close"})
            /\ builder.raw.current_position = c.top_left

C1_Witness ==
    /\ RectangleBuilt
    /\ calls[Len(calls) - 1].size.width < 0
    /\ Len(path) > 5

\* C2: arc_to(a, b, radius) appends, besides the arc to b, no segment when
\* the cursor is at a and exactly one straight segment to a, right before
\* the arc, when the cursor is elsewhere (fresh builder and after close()
\* included).  The arc is the engine's arc element, a straight line when
\* the radius is zero or a = b.
C2_ArcToLineOnlyWhenNeeded ==
    (calls # <<>> /\ LastCall.op = "arc_to") =>
        LET c == LastCall
            cur == pre.raw.current_position
            segs == Segs(Added)
            arcElem == segs[Len(segs)]
        IN  /\ Len(segs) = (IF cur = c.a THEN 1 ELSE 2)
            /\ arcElem.to = c.b
            /\ arcElem.v = (IF c.radius = 0 \/ c.a = c.b
                            THEN "LineTo" ELSE "ArcTo")
            /\ (cur # c.a => segs[1] = Line(c.a))

C2_Witness ==
    /\ calls # <<>>
    /\ LastCall.op = "arc_to"
    /\ pre.raw.current_position = LastCall.a
    /\ pre.raw.last_cmd = "LineTo"
    /\ LastCall.radius # 0
    /\ LastCall.a # LastCall.b

PolyClosed == calls[Len(calls) - 1].op = "close"

PolyN == Len(calls) - 2 - (IF PolyClosed THEN 1 ELSE 0)

\* The calls so far are move_to, line_to (n >= 1 times), optionally
\* close, then build.
IsPolyline ==
    /\ Len(calls) >= 3
    /\ calls[1].op = "move_to"
    /\ calls[Len(calls)].op = "build"
    /\ PolyN >= 1
    /\ \A i \in 2..(PolyN + 1) : calls[i].op = "line_to"

\* C3: move_to(P0), line_to(P1), ..., line_to(Pn), optionally close(),
\* then build() gives one sub-path: it begins at P0, has the n straight
\* segments to P1, ..., Pn in call order with the coordinates unchanged,
\* and ends closed (back at P0) when close() was called, open otherwise.
C3_PolylineRoundTrip ==
    IsPolyline =>
        /\ Len(path) = PolyN + 2
        /\ path[1] = Begin(calls[1].point)
        /\ \A i \in 1..PolyN : path[i + 1] = Line(calls[i + 1].point)
        /\ path[PolyN + 2] = [v |-> IF PolyClosed THEN "Close" ELSE "End"]
        /\ (PolyClosed => builder.raw.current_position = calls[1].point)

C3_Witness ==
    /\ IsPolyline
    /\ PolyClosed
    /\ PolyN = 2
    /\ calls[2].point.x # calls[2].point.y
    /\ calls[3].point # calls[1].point


\* The point of the circle around c at `angle` (eighths of a turn).
CirclePoint(c, r, angle) ==
    [x |-> NAdd(c.x, NScale(r, Cos8(angle))),
     y |-> NAdd(c.y, NScale(r, Sin8(angle)))]

\* Twice the square of a number a + b*w: 2a^2 + b^2 + 4ab*w.
NSq2(n) == <<2 * n[1] * n[1] + n[2] * n[2], 4 * n[1] * n[2]>>

\* p lies at distance r from c.
OnCircle(p, c, r) ==
    NAdd(NSq2(NAdd(p.x, NScale(-1, c.x))), NSq2(NAdd(p.y, NScale(-1, c.y))))
        = <<2 * r * r, 0>>

CircleBuilt ==
    /\ Len(calls) >= 2
    /\ calls[Len(calls)].op = "build"
    /\ calls[Len(calls) - 1].op = "circle"

\* C4 as stated: the sub-path circle(center, radius) adds is terminated as
\* closed in the built Path, the way the sub-path of rectangle is.
C4_CircleClosed ==
    CircleBuilt => path[Len(path)].v = "Close"

\* C4 amended: the sub-path circle(center, radius) adds begins at
\* center + (radius, 0), goes once around center at distance radius as
\* eight quadratic Beziers that end back at its first point, and is left
\* open: it is not terminated as closed.
C4_CircleOpenOnceAround ==
    CircleBuilt =>
        LET c == calls[Len(calls) - 1]
            n == Len(path)
        IN  /\ n >= 10
            /\ path[n].v = "End"
            /\ path[n - 9] = Begin(Pt(c.center.x[1] + c.radius, c.center.y[1]))
            /\ \A i \in 1..8 :
                   /\ path[n - 9 + i].v = "QuadraticTo"
                   /\ OnCircle(path[n - 9 + i].to, c.center, c.radius)
                   /\ path[n - 9 + i].to = CirclePoint(c.center, c.radius, i)
            /\ path[n - 1].to = path[n - 9].to
            /\ (n > 10 => path[n - 10].v \in {"End", "Close"})

C4_Witness ==
    /\ CircleBuilt
    /\ calls[Len(calls) - 1].radius > 0
    /\ Len(path) > 10

\* C5 as stated: arc(arc) adds an arc whose first point is the point of
\* the circle at start_angle and whose last point is the point of the
\* circle at end_angle, also when start_angle is not 0.
C5_ArcEndsAtEndAngle ==
    (calls # <<>> /\ LastCall.op = "arc") =>
        LET a == LastCall.arc
            begins == SelectSeq(Added, LAMBDA e : e.v = "Begin")
        IN  /\ begins = <<Begin(CirclePoint(a.center, a.radius,
                                            a.start_angle))>>
            /\ builder.raw.current_position =
                   CirclePoint(a.center, a.radius, a.end_angle)

IsOpen(b) ==
    b.last_cmd \in {"LineTo", "QuadraticTo", "CubicTo", "ArcTo", "Begin"}

\* The point of an elliptical arc at `angle`.
EllipsePoint(e, angle) ==
    PAdd(e.center,
         Rotate(e.rotation \div 2,
                [x |-> NScale(e.radii.x, Cos8(angle)),
                 y |-> NScale(e.radii.y, Sin8(angle))]))

\* C6: ellipse(arc) first moves to the start point of the arc, beginning a
\* new sub-path there (also when the cursor is already at that point),
\* then appends quadratic Beziers only; the sub-path that was open before
\* is ended as open, not closed, and no segment joins it to the arc.
C6_EllipseStartsSubPath ==
    (calls # <<>> /\ LastCall.op = "ellipse") =>
        LET e == LastCall.arc
            off == IF IsOpen(pre.raw) THEN 1 ELSE 0
        IN  /\ Len(Added) >= off + 1
            /\ (IsOpen(pre.raw) => Added[1] = [v |-> "End"])
            /\ Added[off + 1] = Begin(EllipsePoint(e, e.start_angle))
            /\ \A i \in (off + 2)..Len(Added) : Added[i].v = "QuadraticTo"

C6_Witness ==
    /\ calls # <<>>
    /\ LastCall.op = "ellipse"
    /\ pre.raw.last_cmd = "Begin"
    /\ pre.raw.current_position =
           EllipsePoint(LastCall.arc, LastCall.arc.start_angle)
    /\ Len(Added) > 2

\* The start of the last sub-path begun in a verb list (the origin when
\* none was begun).
RECURSIVE SubPathStart(_)
SubPathStart(vs) ==
    IF vs = <<>>
    THEN Origin
    ELSE IF vs[Len(vs)].v = "Begin"
         THEN vs[Len(vs)].to
         ELSE SubPathStart(SubSeq(vs, 1, Len(vs) - 1))

\* The end point of the last element of a verb list.
EndOf(vs) ==
    IF vs = <<>>
    THEN Origin
    ELSE IF vs[Len(vs)].v \in {"Close", "End"}
         THEN SubPathStart(vs)
         ELSE vs[Len(vs)].to

\* The angle at which the arc drawn for an elliptical arc ends: the sweep
\* is end_angle, cut to one full turn.
DrawnEnd(e) ==
    e.start_angle + Sign(e.end_angle) * Min(Abs(e.end_angle), TwoPi)

\* Where the last call is to leave the cursor.
ExpectedCursor(c) ==
    CASE c.op \in {"move_to", "line_to"} -> c.point
      [] c.op \in {"bezier_curve_to", "quadratic_curve_to"} -> c.to
      [] c.op = "arc_to" -> c.b
      [] c.op = "ellipse" -> EllipsePoint(c.arc, DrawnEnd(c.arc))
      [] c.op = "arc" ->
            CirclePoint(c.arc.center, c.arc.radius,
                        DrawnEnd(c.arc))
      [] c.op = "circle" -> CirclePoint(c.center, c.radius, TwoPi)
      [] c.op = "close" -> SubPathStart(pre.raw.verbs)
      [] c.op = "rectangle" -> c.top_left

\* C7: after every drawing call the current position is the end point of
\* the segment added last, or the point of the last move_to when no
\* segment followed it: the target after line_to and the curves, b after
\* arc_to, the end of the drawn arc after ellipse, arc and circle, the
\* start of the sub-path after close and rectangle.
C7_CursorFollowsLastSegment ==
    (calls # <<>> /\ LastCall.op # "build") =>
        /\ raw_current_position(builder.raw) = ExpectedCursor(LastCall)
        /\ raw_current_position(builder.raw) = EndOf(builder.raw.verbs)

C7_Witness ==
    /\ Len(calls) = 2
    /\ calls[1].op = "bezier_curve_to"
    /\ calls[2].op = "arc_to"
    /\ calls[2].b # calls[1].to

Builds == {i \in 1..Len(calls) : calls[i].op = "build"}

\* C8: build() is possible in every state of a builder that has not been
\* built, the empty one included; it is taken at most once and is the last
\* call on the builder; once taken, the builder and the Path it returned
\* never change.
C8_BuildOnceThenFrozen ==
    /\ [](~built => ENABLED Call_build)
    /\ [](Cardinality(Builds) <= 1 /\ (Builds # {} => built)
           /\ \A i \in Builds : i = Len(calls))
    /\ [][built => (built' /\ path' = path /\ builder' = builder
                     /\ calls' = calls)]_vars
    /\ [][built' /\ ~built => path' = build(builder)]_vars

C8_Witness ==
    /\ built
    /\ calls = <<[op |-> "build"]>>
    /\ path = <<>>

\* C10: circle(center, radius) leaves the builder as ellipse does for the
\* elliptical arc around center with both radii equal to radius, no
\* rotation, from angle 0 to 2*pi; arc(a) leaves it as ellipse does for the
\* elliptical arc with the center and angles of a, both radii a.radius and
\* no rotation.
C10_CircleAndArcAreEllipses ==
    /\ (calls # <<>> /\ LastCall.op = "circle") =>
           builder = ellipse(pre, [center |-> LastCall.center,
                                   radii |-> [x |-> LastCall.radius,
                                              y |-> LastCall.radius],
                                   rotation |-> 0,
                                   start_angle |-> 0,
                                   end_angle |-> TwoPi])
    /\ (calls # <<>> /\ LastCall.op = "arc") =>
           builder = ellipse(pre, [center |-> LastCall.arc.center,
                                   radii |-> [x |-> LastCall.arc.radius,
                                              y |-> LastCall.arc.radius],
                                   rotation |-> 0,
                                   start_angle |-> LastCall.arc.start_angle,
                                   end_angle |-> LastCall.arc.end_angle])

C10_Witness ==
    /\ Len(calls) = 2
    /\ calls[1].op = "line_to"
    /\ calls[2].op = "circle"
    /\ calls[2].radius > 0

====
